---- MODULE Spec2Model ----
(***************************************************************************)
(* Model of the dependency-graph engine (src/dependency_graph.py):         *)
(* the adjacency store, the filtered depth-first build with cycle          *)
(* detection, and the query operations.                                    *)
(*                                                                         *)
(* A package name is a Python str, modelled as a sequence of one-character *)
(* strings so that lower() and substring containment are computed.         *)
(***************************************************************************)
EXTENDS Integers, Sequences, FiniteSets, TLC

VARIABLES
    Src,              \* the dependency source: package -> keys of fetch(package)
    failing,          \* packages for which the dependency source raises
    filter_substring, \* self.filter_substring (already lower-cased by __init__)
    graph,            \* self.graph: a function whose DOMAIN is the key set of the dict
    self_visited,     \* self.visited
    recursion_stack,  \* self.recursion_stack
    cycles,           \* self.cycles
    stack,            \* call stack of build_graph_dfs: frames [package, path, pc, todo]
    visited,          \* the `visited` set shared by the frames of one top-level build
    package_name,     \* the package under analysis (config['package_name'])
    root,             \* argument of the current / last top-level build_graph_dfs call
    ncalls,           \* history: number of top-level mutating calls made so far
    after_clear,      \* history: "cleared" after clear(), "building" in and after the build that follows it
    back_edges,       \* history: the edges <<u, v>> of the current build's loop with v on u's path
    fresh,            \* history: the current / last build started on a freshly
                      \* constructed engine and nothing else has changed it since
    direct_added,     \* history: first arguments of the direct add_dependency calls
    fetches,          \* history: how often the source was called, per package
    expansions,       \* history: first-time expansions per package in the current build
    escaped,          \* history: an exception left the top-level build_graph_dfs call
    result,           \* the value returned by the last query
    config,           \* the configuration file's content
    fixture,          \* the test repository file's content
    repository,       \* loader.repository
    pc,               \* where main() stands ("none": the engine is used as a library)
    exit_code,        \* main()'s return value, -1 while it runs
    error,            \* the exception that ended main(), "none" otherwise
    pending,          \* fixture packages the loop of main() has still to visit
    printed,          \* the sections of the report main() has printed, in order
    tstack,           \* call stack of _build_tree_compact: frames [package, pc, todo]
    tvisited,         \* the ASCII tree generator's self.visited
    texpansions,      \* history: how often _build_tree_compact went past its test, per package
    tree_state        \* generate_compact: "none", "running", "done" or "RecursionError"

vars == <<Src, failing, filter_substring, graph, self_visited, recursion_stack,
          cycles, stack, visited, package_name, root, ncalls, fresh,
          direct_added, fetches, expansions, escaped, result, back_edges,
          after_clear, config, fixture, repository, pc, exit_code, error,
          pending, printed, tstack, tvisited, texpansions, tree_state>>

\* main()'s own state
shell == <<config, fixture, repository, pc, exit_code, error, pending, printed>>

\* the ASCII tree generator's state
tree == <<tstack, tvisited, texpansions, tree_state>>

----------------------------------------------------------------------------
(* Bounds *)

MaxEdges == 4      \* edges of a source relation in BuildSpec
MaxApiEdges == 3   \* edges of a source relation in Spec
MaxCalls == 2      \* top-level mutating calls in Spec
MaxFail == 1       \* packages whose fetch raises
MaxShellEdges == 3 \* dependency entries of a fixture or registry in ShellSpec
MaxBadParams == 1  \* parameters of a configuration file replaced by a bad value
RecursionLimit == 8 \* frames of _build_tree_compact the interpreter allows

----------------------------------------------------------------------------
(* Package names and strings *)

A == <<"A">>
B == <<"B">>
C == <<"C">>
D == <<"D">>
Ctest == <<"C", "t", "e", "s", "t">>

Packages == {A, B, C, D, Ctest}

\* the names the source relations of BuildSpec and of Spec range over
BuildPackages == {A, B, C, D}
ApiPackages == {A, B, Ctest}

None == <<"None">>

\* constructor arguments for filter_substring: "", "test", "B" in Spec,
\* "" and "B" in BuildSpec ("test" occurs in no name of BuildPackages)
ApiFilterArgs == {<<>>, <<"t", "e", "s", "t">>, <<"B">>}
BuildFilterArgs == {<<>>, <<"B">>}

UpperCase == <<"A","B","C","D","E","F","G","H","I","J","K","L","M",
               "N","O","P","Q","R","S","T","U","V","W","X","Y","Z">>
LowerCase == <<"a","b","c","d","e","f","g","h","i","j","k","l","m",
               "n","o","p","q","r","s","t","u","v","w","x","y","z">>

\* str.lower() on one character
LowerChar(c) ==
    IF \E i \in 1..Len(UpperCase) : UpperCase[i] = c
    THEN LowerCase[CHOOSE i \in 1..Len(UpperCase) : UpperCase[i] = c]
    ELSE c

\* str.lower()
lower(s) == [i \in 1..Len(s) |-> LowerChar(s[i])]

\* Python's `sub in s` for strings
Contains(sub, s) ==
    \E i \in 1..(Len(s) - Len(sub) + 1) : SubSeq(s, i, i + Len(sub) - 1) = sub

----------------------------------------------------------------------------
(* DependencyGraph: pure parts *)

\* __init__: self.filter_substring = filter_substring.lower() if filter_substring else ""
init_filter(arg) == IF arg # <<>> THEN lower(arg) ELSE <<>>

\* _should_filter comparing the name as it is written
should_filter_case_sensitive(f, name) ==
    IF f = <<>> THEN FALSE
    ELSE Contains(f, name)

\* _should_filter
should_filter(f, name) ==
    IF f = <<>> THEN FALSE
    ELSE Contains(f, lower(name))

\* self.graph[package] of a defaultdict(set): creates the key when it is missing
getitem(g, package) ==
    IF package \in DOMAIN g THEN g
    ELSE [p \in DOMAIN g \cup {package} |-> IF p = package THEN {} ELSE g[p]]

\* self.graph.get(package, set())
dict_get(g, package) == IF package \in DOMAIN g THEN g[package] ELSE {}

\* add_dependency that leaves out the entry for the dependency
add_dependency_no_key(g, f, package, dependency) ==
    IF should_filter(f, package) \/ should_filter(f, dependency) THEN g
    ELSE LET g1 == getitem(g, package)
         IN [g1 EXCEPT ![package] = g1[package] \cup {dependency}]

\* add_dependency: the graph after the call
add_dependency(g, f, package, dependency) ==
    IF should_filter(f, package) \/ should_filter(f, dependency) THEN g
    ELSE LET g1 == getitem(g, package)
             g2 == [g1 EXCEPT ![package] = g1[package] \cup {dependency}]
         IN IF dependency \notin DOMAIN g2
            THEN [p \in DOMAIN g2 \cup {dependency} |->
                     IF p = dependency THEN {} ELSE g2[p]]
            ELSE g2

\* get_all_dependencies: collect_deps(pkg) acting on the closure's two sets,
\* s = [visited, all_deps]; the loop over the set takes its elements in some order
RECURSIVE collect_deps(_, _, _, _)
RECURSIVE collect_loop(_, _, _, _)
collect_deps(g, f, pkg, s) ==
    IF pkg \in s.visited \/ should_filter(f, pkg) THEN s
    ELSE collect_loop(g, f, dict_get(g, pkg), [s EXCEPT !.visited = @ \cup {pkg}])
collect_loop(g, f, todo, s) ==
    IF todo = {} THEN s
    ELSE LET dep == CHOOSE d \in todo : TRUE
         IN IF ~should_filter(f, dep)
            THEN collect_loop(g, f, todo \ {dep},
                     collect_deps(g, f, dep, [s EXCEPT !.all_deps = @ \cup {dep}]))
            ELSE collect_loop(g, f, todo \ {dep}, s)

\* get_all_dependencies returning the packages walked instead of the ones collected
get_all_dependencies_walked(g, f, package) ==
    IF package \notin DOMAIN g THEN {}
    ELSE collect_deps(g, f, package, [visited |-> {}, all_deps |-> {}]).visited

\* get_all_dependencies: the returned set
get_all_dependencies(g, f, package) ==
    IF package \notin DOMAIN g THEN {}
    ELSE collect_deps(g, f, package, [visited |-> {}, all_deps |-> {}]).all_deps

\* get_direct_dependencies reading self.graph[package] instead of .get()
get_direct_dependencies_getitem(g, package) ==
    [value |-> getitem(g, package)[package], graph |-> getitem(g, package)]

\* get_direct_dependencies: the returned set and the dict after the call
get_direct_dependencies(g, package) ==
    [value |-> dict_get(g, package), graph |-> g]

\* get_all_packages
get_all_packages(g) == DOMAIN g \cup UNION {g[p] : p \in DOMAIN g}

\* get_cycles
get_cycles(cs) == cs

\* has_cycles
has_cycles(cs) == Len(cs) > 0

\* list.index(x): position of the first occurrence
Index(path, x) == CHOOSE i \in 1..Len(path) :
                     /\ path[i] = x
                     /\ \A j \in 1..(i - 1) : path[j] # x

InPath(path, x) == \E i \in 1..Len(path) : path[i] = x

\* the chain of tests without the visited test
ClassifyNoVisited(f, package, path, vis) ==
    IF should_filter(f, package) THEN "filter"
    ELSE IF InPath(path, package) THEN "cycle"
    ELSE "expand"

\* the chain of tests with the visited test ahead of the path test
ClassifyVisitedFirst(f, package, path, vis) ==
    IF should_filter(f, package) THEN "filter"
    ELSE IF package \in vis THEN "visited"
    ELSE IF InPath(path, package) THEN "cycle"
    ELSE "expand"

\* build_graph_dfs, the chain of tests at the head of a call: which branch is taken
Classify(f, package, path, vis) ==
    IF should_filter(f, package) THEN "filter"
    ELSE IF InPath(path, package) THEN "cycle"
    ELSE IF package \in vis THEN "visited"
    ELSE "expand"

\* the cycle taken as the whole path: path + [package]
CycleOfWholePath(path, package) == path \o <<package>>

\* the cycle recorded at a cycle hit: path[cycle_start:] + [package]
CycleOf(path, package) ==
    SubSeq(path, Index(path, package), Len(path)) \o <<package>>

\* a raised exception without the try/except: it unwinds every frame
OnRaisePropagate(st) == [stack |-> <<>>, escaped |-> TRUE]

\* what the try/except around the fetch makes of a raised exception:
\* the handler of the raising frame swallows it and the frame goes on to its end
OnRaise(st) ==
    [stack |-> [st EXCEPT ![Len(st)].pc = "loop", ![Len(st)].todo = {}],
     escaped |-> FALSE]

----------------------------------------------------------------------------
(* Source relations *)

RECURSIVE EdgeSets(_, _)
EdgeSets(pkgs, k) ==
    IF k = 0 THEN {{}}
    ELSE LET prev == EdgeSets(pkgs, k - 1)
         IN prev \cup {s \cup {e} : s \in prev, e \in pkgs \X pkgs}

SourceOf(es) == [p \in Packages |-> {d \in Packages : <<p, d>> \in es}]

\* the source relations over pkgs with at most k edges
Sources(pkgs, k) == {SourceOf(es) : es \in EdgeSets(pkgs, k)}

\* successors of p in a relation given as a function (a dict or a source)
Succ(g, p) == IF p \in DOMAIN g THEN g[p] ELSE {}

\* the packages reachable from the set X by zero or more edges of g
RECURSIVE ReachFrom(_, _)
ReachFrom(g, X) ==
    LET Y == X \cup UNION {Succ(g, p) : p \in X}
    IN IF Y = X THEN X ELSE ReachFrom(g, Y)

\* the packages reachable from p by one or more edges of g
ReachPlus(g, p) == ReachFrom(g, Succ(g, p))

FailSets(pkgs) == {F \in SUBSET pkgs : Cardinality(F) <= MaxFail}

Top == stack[Len(stack)]
Pop(st) == SubSeq(st, 1, Len(st) - 1)
Idle == stack = <<>>

NoResult == [op |-> "none", arg |-> None, value |-> {}]

----------------------------------------------------------------------------
(* ConfigParser: the configuration file and its validation *)

Params == {"package_name", "repository_url", "test_mode",
           "test_repository_path", "package_version", "ascii_tree_mode",
           "filter_substring"}

REQUIRED_PARAMS == {"package_name", "repository_url", "test_mode",
                    "package_version", "ascii_tree_mode", "filter_substring"}

\* the values a parameter has in the YAML document (absent: no such key)
Absent == [type |-> "absent", val |-> <<>>]
Str(s) == [type |-> "str", val |-> s]
Bool(b) == [type |-> "bool", val |-> IF b THEN <<"true">> ELSE <<"false">>]
Number == [type |-> "int", val |-> <<"1">>]

\* str.strip()
RECURSIVE lstrip(_)
lstrip(s) == IF s # <<>> /\ Head(s) = " " THEN lstrip(Tail(s)) ELSE s
RECURSIVE rstrip(_)
rstrip(s) ==
    IF s # <<>> /\ s[Len(s)] = " " THEN rstrip(SubSeq(s, 1, Len(s) - 1)) ELSE s
strip(s) == rstrip(lstrip(s))

\* the only path that names a file system entry, and a registry URL
RepoPath == <<"r", "e", "p", "o">>
Url == <<"u", "r", "l">>
Version == <<"1">>

\* dict.get(param, default)
config_get(params, param, default) ==
    IF params[param].type = "absent" THEN default ELSE params[param]

NonEmptyStr(v) == v.type = "str" /\ strip(v.val) # <<>>

\* _validate_config without the type test of ascii_tree_mode
validate_config_no_ascii_test(params, existing) ==
    IF \E param \in REQUIRED_PARAMS : params[param].type = "absent"
    THEN "ConfigError"
    ELSE IF ~NonEmptyStr(params["package_name"]) THEN "ConfigError"
    ELSE IF ~NonEmptyStr(params["repository_url"]) THEN "ConfigError"
    ELSE IF params["test_mode"].type # "bool" THEN "ConfigError"
    ELSE IF /\ params["test_mode"] = Bool(TRUE)
            /\ LET test_repository_path ==
                       config_get(params, "test_repository_path", Str(<<>>))
               IN \/ test_repository_path.type # "str"
                  \/ test_repository_path.val # <<>>
                        /\ test_repository_path.val \notin existing
         THEN "ConfigError"
    ELSE IF ~NonEmptyStr(params["package_version"]) THEN "ConfigError"
    ELSE IF params["filter_substring"].type # "str" THEN "ConfigError"
    ELSE "ok"

\* _validate_config, lines 69-126: "ok" or the exception raised;
\* existing is the set of paths for which os.path.exists is true
validate_config(params, existing) ==
    IF \E param \in REQUIRED_PARAMS : params[param].type = "absent"
    THEN "ConfigError"
    ELSE IF ~NonEmptyStr(params["package_name"]) THEN "ConfigError"
    ELSE IF ~NonEmptyStr(params["repository_url"]) THEN "ConfigError"
    ELSE IF params["test_mode"].type # "bool" THEN "ConfigError"
    ELSE IF /\ params["test_mode"] = Bool(TRUE)
            /\ LET test_repository_path ==
                       config_get(params, "test_repository_path", Str(<<>>))
               IN \/ test_repository_path.type # "str"
                  \/ test_repository_path.val # <<>>
                        /\ test_repository_path.val \notin existing
         THEN "ConfigError"
    ELSE IF ~NonEmptyStr(params["package_version"]) THEN "ConfigError"
    ELSE IF params["ascii_tree_mode"].type # "bool" THEN "ConfigError"
    ELSE IF params["filter_substring"].type # "str" THEN "ConfigError"
    ELSE "ok"

\* _validate_config, lines 128-132: the values after normalisation
normalize(params) ==
    [param \in Params |->
        IF param \in {"package_name", "repository_url", "package_version",
                      "filter_substring"}
        THEN Str(strip(params[param].val))
        ELSE params[param]]

\* load_config: the file is missing, is not YAML, is empty, or is validated
load_config(cfg, existing) ==
    IF cfg.file = "missing" THEN "ConfigError"
    ELSE IF cfg.file = "invalid_yaml" THEN "ConfigError"
    ELSE IF cfg.file = "empty" THEN "ConfigError"
    ELSE validate_config(cfg.params, existing)

\* configuration files: a valid document, and documents with up to
\* MaxBadParams parameters replaced by an absent, blank or mistyped value
BaseParams ==
    {[package_name |-> Str(A), repository_url |-> Str(Url),
      test_mode |-> Bool(tm), test_repository_path |-> trp,
      package_version |-> Str(Version), ascii_tree_mode |-> Bool(am),
      filter_substring |-> Str(fs)] :
        tm \in BOOLEAN, am \in BOOLEAN, fs \in BuildFilterArgs,
        trp \in {Absent, Str(<<>>), Str(RepoPath)}}

BadValues == {Absent, Str(<<" ">>), Number}

RECURSIVE Alter(_, _)
Alter(ps, k) ==
    IF k = 0 THEN ps
    ELSE Alter(ps \cup {[params EXCEPT ![param] = v] :
                           params \in ps, param \in Params, v \in BadValues},
               k - 1)

NoParams == [param \in Params |-> Absent]

Configs ==
    {[file |-> f, params |-> NoParams] :
        f \in {"missing", "invalid_yaml", "empty"}}
    \cup {[file |-> "mapping", params |-> params] :
             params \in Alter(BaseParams, MaxBadParams)}
----------------------------------------------------------------------------
(* TestRepositoryLoader: the fixture file and the source made of it *)

ShellPackages == {A, B, C}

EdgeCount(d) == Cardinality({e \in (DOMAIN d) \X ShellPackages : e[2] \in d[e[1]]})

\* the dicts package -> dependencies a fixture can hold
ShellDicts ==
    UNION {{d \in [K -> SUBSET ShellPackages] : EdgeCount(d) <= MaxShellEdges} :
              K \in SUBSET ShellPackages}

NoDict == [p \in {} |-> {}]

\* fixture files: nothing at the path, an entry that cannot be read, a JSON
\* object, a JSON array of names, a JSON scalar, or `PACKAGE: DEP, DEP` text
\* that may also hold lines without a colon (junk)
Fixtures ==
    {[kind |-> k, dict |-> NoDict, junk |-> FALSE] :
        k \in {"missing", "unreadable", "json_scalar"}}
    \cup {[kind |-> "json_array", dict |-> [p \in K |-> {}], junk |-> FALSE] :
             K \in SUBSET ShellPackages}
    \cup {[kind |-> "json_object", dict |-> d, junk |-> FALSE] :
             d \in ShellDicts}
    \cup {[kind |-> "text", dict |-> d, junk |-> j] :
             d \in ShellDicts, j \in BOOLEAN}

\* _parse_text_format: a line without a colon is skipped, a line
\* `PACKAGE: DEPS` sets the entry of PACKAGE
parse_text_format(fx) == [type |-> "dict", dict |-> fx.dict]

\* _load_repository: the exception raised, and loader.repository
load_repository(fx) ==
    IF fx.kind \in {"missing", "unreadable"}
    THEN [raised |-> "TestRepositoryError", repository |-> [type |-> "dict", dict |-> NoDict]]
    ELSE IF fx.kind = "json_object"
    THEN [raised |-> "none", repository |-> [type |-> "dict", dict |-> fx.dict]]
    ELSE IF fx.kind = "json_array"
    THEN [raised |-> "none", repository |-> [type |-> "list", dict |-> fx.dict]]
    ELSE IF fx.kind = "json_scalar"
    THEN [raised |-> "none", repository |-> [type |-> "int", dict |-> NoDict]]
    ELSE [raised |-> "none", repository |-> parse_text_format(fx)]

\* get_dependencies(package): the keys of the dict returned, or the exception
\* raised (`in` on a number, a string index into a list)
get_dependencies(repo, package) ==
    IF repo.type = "int" THEN [raised |-> TRUE, keys |-> {}]
    ELSE IF package \notin DOMAIN repo.dict THEN [raised |-> FALSE, keys |-> {}]
    ELSE IF repo.type = "list" THEN [raised |-> TRUE, keys |-> {}]
    ELSE [raised |-> FALSE, keys |-> repo.dict[package]]

\* create_dependency_getter: the source as the build sees it
getter_source(repo) ==
    [p \in Packages |-> get_dependencies(repo, p).keys]
getter_failing(repo) ==
    {p \in Packages : get_dependencies(repo, p).raised}

\* the methods of class DependencyGraph
DependencyGraphMethods ==
    {"__init__", "_should_filter", "add_dependency", "build_graph_dfs",
     "get_all_dependencies", "get_direct_dependencies", "get_cycles",
     "has_cycles", "get_all_packages", "clear"}

\* main() has not been started
NoConfig == [file |-> "missing", params |-> NoParams]
NoFixture == [kind |-> "missing", dict |-> NoDict, junk |-> FALSE]
NoRepository == [type |-> "dict", dict |-> NoDict]
\* generate_compact has not been called
TreeOff ==
    /\ tstack = <<>>
    /\ tvisited = {}
    /\ texpansions = [p \in Packages |-> 0]
    /\ tree_state = "none"

ShellOff ==
    /\ config = NoConfig
    /\ fixture = NoFixture
    /\ repository = NoRepository
    /\ pc = "none"
    /\ exit_code = -1
    /\ error = "none"
    /\ pending = {}
    /\ printed = <<>>

----------------------------------------------------------------------------
(* Initial states: a freshly constructed engine, some source, some filter. *)
(* The source has edges only out of packages reachable from package_name,  *)
(* and only such packages fail: the rest of a source is never read by a    *)
(* build from package_name.                                                *)

InitWith(roots, pkgs, k, filters) ==
    /\ package_name \in roots
    /\ Src \in Sources(pkgs, k)
    /\ \A p \in Packages \ ReachFrom(Src, {package_name}) : Src[p] = {}
    /\ failing \in FailSets(ReachFrom(Src, {package_name}))
    /\ \E arg \in filters : filter_substring = init_filter(arg)
    /\ graph = <<>>
    /\ self_visited = {}
    /\ recursion_stack = {}
    /\ cycles = <<>>
    /\ stack = <<>>
    /\ visited = {}
    /\ root = None
    /\ ncalls = 0
    /\ fresh = FALSE
    /\ direct_added = {}
    /\ fetches = [p \in Packages |-> 0]
    /\ expansions = [p \in Packages |-> 0]
    /\ escaped = FALSE
    /\ result = NoResult
    /\ back_edges = <<>>
    /\ after_clear = "no"
    /\ ShellOff
    /\ TreeOff

InitBuild == InitWith(BuildPackages, BuildPackages, MaxEdges, BuildFilterArgs)

\* the same with a source that never fails
InitNoFail == InitBuild /\ failing = {}

\* the engine under any sequence of calls: a source that never fails,
\* with edges only out of packages reachable from A
Init ==
    /\ InitWith({A}, ApiPackages, MaxApiEdges, ApiFilterArgs)
    /\ failing = {}

----------------------------------------------------------------------------
(* build_graph_dfs *)

\* the top-level call build_graph_dfs(r, fetch): visited = set(), path = []
BuildCall(r) ==
    /\ Idle
    /\ stack' = <<[package |-> r, path |-> <<>>, pc |-> "enter", todo |-> {}]>>
    /\ visited' = {}
    /\ root' = r
    /\ ncalls' = ncalls + 1
    /\ fresh' = (ncalls = 0)
    /\ expansions' = [p \in Packages |-> 0]
    /\ escaped' = FALSE
    /\ result' = NoResult
    /\ back_edges' = <<>>
    /\ after_clear' = IF after_clear = "cleared" THEN "building" ELSE "no"
    /\ UNCHANGED <<Src, failing, filter_substring, graph, self_visited,
                   recursion_stack, cycles, package_name, direct_added,
                   fetches>>

\* lines 82-83: the package matches the filter, return
FilterSkip ==
    /\ ~Idle
    /\ Top.pc = "enter"
    /\ Classify(filter_substring, Top.package, Top.path, visited) = "filter"
    /\ stack' = Pop(stack)
    /\ UNCHANGED <<tree, shell, after_clear, back_edges, Src, failing, filter_substring, graph, self_visited,
                   recursion_stack, cycles, visited, package_name, root,
                   ncalls, fresh, direct_added, fetches, expansions, escaped,
                   result>>

\* lines 86-90: the package is on the current path, record the cycle and return
CycleHit ==
    /\ ~Idle
    /\ Top.pc = "enter"
    /\ Classify(filter_substring, Top.package, Top.path, visited) = "cycle"
    /\ cycles' = Append(cycles, CycleOf(Top.path, Top.package))
    /\ stack' = Pop(stack)
    /\ UNCHANGED <<tree, shell, after_clear, back_edges, Src, failing, filter_substring, graph, self_visited,
                   recursion_stack, visited, package_name, root, ncalls,
                   fresh, direct_added, fetches, expansions, escaped, result>>

\* lines 93-94: the package was expanded before, return
AlreadyVisited ==
    /\ ~Idle
    /\ Top.pc = "enter"
    /\ Classify(filter_substring, Top.package, Top.path, visited) = "visited"
    /\ stack' = Pop(stack)
    /\ UNCHANGED <<tree, shell, after_clear, back_edges, Src, failing, filter_substring, graph, self_visited,
                   recursion_stack, cycles, visited, package_name, root,
                   ncalls, fresh, direct_added, fetches, expansions, escaped,
                   result>>

\* the expansion marking the package visited only when its fetch succeeds
ExpandMarkOnSuccess ==
    /\ ~Idle
    /\ Top.pc = "enter"
    /\ Classify(filter_substring, Top.package, Top.path, visited) = "expand"
    /\ visited' = IF Top.package \in failing THEN visited
                  ELSE visited \cup {Top.package}
    /\ fetches' = [fetches EXCEPT ![Top.package] = @ + 1]
    /\ expansions' = [expansions EXCEPT ![Top.package] = @ + 1]
    /\ LET st == [stack EXCEPT ![Len(stack)].path = Append(@, Top.package)]
       IN IF Top.package \in failing
          THEN /\ stack' = OnRaise(st).stack
               /\ escaped' = OnRaise(st).escaped
          ELSE /\ stack' = [st EXCEPT ![Len(st)].pc = "loop",
                                      ![Len(st)].todo = Src[Top.package]]
               /\ escaped' = escaped
    /\ UNCHANGED <<tree, shell, after_clear, back_edges, Src, failing, filter_substring, graph, self_visited,
                   recursion_stack, cycles, package_name, root, ncalls,
                   fresh, direct_added, result>>

\* the expansion without visited.add(package)
ExpandNoMark ==
    /\ ~Idle
    /\ Top.pc = "enter"
    /\ Classify(filter_substring, Top.package, Top.path, visited) = "expand"
    /\ visited' = visited
    /\ fetches' = [fetches EXCEPT ![Top.package] = @ + 1]
    /\ expansions' = [expansions EXCEPT ![Top.package] = @ + 1]
    /\ LET st == [stack EXCEPT ![Len(stack)].path = Append(@, Top.package)]
       IN IF Top.package \in failing
          THEN /\ stack' = OnRaise(st).stack
               /\ escaped' = OnRaise(st).escaped
          ELSE /\ stack' = [st EXCEPT ![Len(st)].pc = "loop",
                                      ![Len(st)].todo = Src[Top.package]]
               /\ escaped' = escaped
    /\ UNCHANGED <<tree, shell, after_clear, back_edges, Src, failing, filter_substring, graph, self_visited,
                   recursion_stack, cycles, package_name, root, ncalls,
                   fresh, direct_added, result>>

\* lines 97-102: mark visited, extend the path, call the source
Expand ==
    /\ ~Idle
    /\ Top.pc = "enter"
    /\ Classify(filter_substring, Top.package, Top.path, visited) = "expand"
    /\ visited' = visited \cup {Top.package}
    /\ fetches' = [fetches EXCEPT ![Top.package] = @ + 1]
    /\ expansions' = [expansions EXCEPT ![Top.package] = @ + 1]
    /\ LET st == [stack EXCEPT ![Len(stack)].path = Append(@, Top.package)]
       IN IF Top.package \in failing
          THEN /\ stack' = OnRaise(st).stack
               /\ escaped' = OnRaise(st).escaped
          ELSE /\ stack' = [st EXCEPT ![Len(st)].pc = "loop",
                                      ![Len(st)].todo = Src[Top.package]]
               /\ escaped' = escaped
    /\ UNCHANGED <<tree, shell, after_clear, back_edges, Src, failing, filter_substring, graph, self_visited,
                   recursion_stack, cycles, package_name, root, ncalls,
                   fresh, direct_added, result>>

\* the loop adding the edge only when the dependency is new to the build
DescendSkipVisited ==
    /\ ~Idle
    /\ Top.pc = "loop"
    /\ \E dep_name \in Top.todo :
          LET st == [stack EXCEPT ![Len(stack)].todo = @ \ {dep_name}]
          IN IF ~should_filter(filter_substring, dep_name)
             THEN /\ graph' = IF dep_name \in visited THEN graph
                               ELSE add_dependency(graph, filter_substring,
                                                   Top.package, dep_name)
                  /\ stack' = Append(st, [package |-> dep_name,
                                          path |-> Top.path,
                                          pc |-> "enter", todo |-> {}])
                  /\ back_edges' = IF InPath(Top.path, dep_name)
                                   THEN Append(back_edges, <<Top.package, dep_name>>)
                                   ELSE back_edges
             ELSE /\ graph' = graph
                  /\ stack' = st
                  /\ back_edges' = back_edges
    /\ UNCHANGED <<tree, shell, after_clear, Src, failing, filter_substring, self_visited,
                   recursion_stack, cycles, visited, package_name, root,
                   ncalls, fresh, direct_added, fetches, expansions, escaped,
                   result>>

\* lines 105-108: one iteration of the loop over dependencies.keys()
\* (the dict's order is the source's: any order)
Descend ==
    /\ ~Idle
    /\ Top.pc = "loop"
    /\ \E dep_name \in Top.todo :
          LET st == [stack EXCEPT ![Len(stack)].todo = @ \ {dep_name}]
          IN IF ~should_filter(filter_substring, dep_name)
             THEN /\ graph' = add_dependency(graph, filter_substring,
                                             Top.package, dep_name)
                  /\ stack' = Append(st, [package |-> dep_name,
                                          path |-> Top.path,
                                          pc |-> "enter", todo |-> {}])
                  /\ back_edges' = IF InPath(Top.path, dep_name)
                                   THEN Append(back_edges, <<Top.package, dep_name>>)
                                   ELSE back_edges
             ELSE /\ graph' = graph
                  /\ stack' = st
                  /\ back_edges' = back_edges
    /\ UNCHANGED <<tree, shell, after_clear, Src, failing, filter_substring, self_visited,
                   recursion_stack, cycles, visited, package_name, root,
                   ncalls, fresh, direct_added, fetches, expansions, escaped,
                   result>>

\* lines 116-117 and the return: the loop is over (or the fetch raised);
\* path.pop() acts on the frame's own list, which dies with the frame
Return ==
    /\ ~Idle
    /\ Top.pc = "loop"
    /\ Top.todo = {}
    /\ stack' = Pop(stack)
    /\ UNCHANGED <<tree, shell, after_clear, back_edges, Src, failing, filter_substring, graph, self_visited,
                   recursion_stack, cycles, visited, package_name, root,
                   ncalls, fresh, direct_added, fetches, expansions, escaped,
                   result>>

Step == FilterSkip \/ CycleHit \/ AlreadyVisited \/ Expand \/ Descend \/ Return

----------------------------------------------------------------------------
(* The other public operations, called between builds *)

\* add_dependency(p, d) called directly
AddDependency ==
    /\ Idle
    /\ ncalls < MaxCalls
    /\ \E p \in ApiPackages, d \in ApiPackages :
          /\ graph' = add_dependency(graph, filter_substring, p, d)
          /\ direct_added' = direct_added \cup {p}
    /\ ncalls' = ncalls + 1
    /\ fresh' = FALSE
    /\ result' = NoResult
    /\ after_clear' = "no"
    /\ UNCHANGED <<tree, shell, back_edges, Src, failing, filter_substring, self_visited,
                   recursion_stack, cycles, stack, visited, package_name,
                   root, fetches, expansions, escaped>>

\* clear() leaving the recorded cycles in place
ClearKeepCycles ==
    /\ Idle
    /\ ncalls < MaxCalls
    /\ graph' = <<>>
    /\ self_visited' = {}
    /\ recursion_stack' = {}
    /\ cycles' = cycles
    /\ fresh' = FALSE
    /\ result' = NoResult
    /\ after_clear' = "cleared"
    /\ UNCHANGED <<tree, shell, back_edges, Src, failing, filter_substring, stack, visited,
                   package_name, root, ncalls, direct_added, fetches, expansions,
                   escaped>>

\* clear()
Clear ==
    /\ Idle
    /\ ncalls < MaxCalls
    /\ graph' = <<>>
    /\ self_visited' = {}
    /\ recursion_stack' = {}
    /\ cycles' = <<>>
    /\ fresh' = FALSE
    /\ result' = NoResult
    /\ after_clear' = "cleared"
    /\ UNCHANGED <<tree, shell, back_edges, Src, failing, filter_substring, stack, visited,
                   package_name, root, ncalls, direct_added, fetches, expansions,
                   escaped>>

\* build_graph_dfs(r, fetch) called on the engine in whatever state it is in
Build ==
    /\ ncalls < MaxCalls
    /\ \E r \in ApiPackages : BuildCall(r)
    /\ UNCHANGED <<shell, tree>>

\* a query returns: the value goes to result, the dict is what the query left
Returns(op, arg, value, g) ==
    /\ Idle
    /\ result' = [op |-> op, arg |-> arg, value |-> value]
    /\ graph' = g
    /\ UNCHANGED <<tree, shell, after_clear, back_edges, Src, failing, filter_substring, self_visited,
                   recursion_stack, cycles, stack, visited, package_name,
                   root, ncalls, fresh, direct_added, fetches, expansions,
                   escaped>>

GetAllDependencies ==
    \E p \in Packages :
        Returns("get_all_dependencies", p,
                get_all_dependencies(graph, filter_substring, p), graph)

GetDirectDependencies ==
    \E p \in Packages :
        Returns("get_direct_dependencies", p,
                get_direct_dependencies(graph, p).value,
                get_direct_dependencies(graph, p).graph)

GetAllPackages ==
    Returns("get_all_packages", None, get_all_packages(graph), graph)

GetCycles ==
    Returns("get_cycles", None, get_cycles(cycles), graph)

HasCycles ==
    Returns("has_cycles", None, has_cycles(cycles), graph)

----------------------------------------------------------------------------
(* main(): the shell around the engine *)

\* the engine's state and the build's history, as main() leaves them alone
engine == <<graph, self_visited, recursion_stack, cycles, stack, visited, root,
            ncalls, fresh, direct_added, fetches, expansions, escaped, result,
            back_edges, after_clear>>

\* the paths for which os.path.exists is true
Existing == IF fixture.kind = "missing" THEN {} ELSE {RepoPath}

\* the configuration reads the fixture file: it is valid if the file is there,
\* in test mode, with the file's path
ReadsFixture(cfg) ==
    /\ cfg.file = "mapping"
    /\ validate_config(cfg.params, {RepoPath}) = "ok"
    /\ cfg.params["test_mode"] = Bool(TRUE)
    /\ cfg.params["test_repository_path"] = Str(RepoPath)

TestMode == config.params["test_mode"] = Bool(TRUE)

\* main() is started on some configuration file and some fixture file; the
\* fixture of a run that never opens it is left out
ShellInit ==
    /\ config \in Configs
    /\ fixture \in IF ReadsFixture(config) THEN Fixtures ELSE {NoFixture}
    /\ repository = NoRepository
    /\ pc = "start"
    /\ exit_code = -1
    /\ error = "none"
    /\ pending = {}
    /\ printed = <<>>
    /\ Src = [p \in Packages |-> {}]
    /\ failing = {}
    /\ filter_substring = <<>>
    /\ package_name = None
    /\ graph = <<>>
    /\ self_visited = {}
    /\ recursion_stack = {}
    /\ cycles = <<>>
    /\ stack = <<>>
    /\ visited = {}
    /\ root = None
    /\ ncalls = 0
    /\ fresh = FALSE
    /\ direct_added = {}
    /\ fetches = [p \in Packages |-> 0]
    /\ expansions = [p \in Packages |-> 0]
    /\ escaped = FALSE
    /\ result = NoResult
    /\ back_edges = <<>>
    /\ after_clear = "no"
    /\ TreeOff

\* main() returns 1, after exception e if any
Exit1(e) ==
    /\ pc' = "exit"
    /\ exit_code' = 1
    /\ error' = e

\* lines 53-72 and 200-205: load and validate the configuration, read the
\* parameters and construct the engine
LoadConfig ==
    /\ pc = "start"
    /\ LET r == load_config(config, Existing)
           params == normalize(config.params)
       IN IF r # "ok"
          THEN /\ Exit1(r)
               /\ UNCHANGED <<package_name, filter_substring>>
          ELSE /\ pc' = "source"
               /\ package_name' = params["package_name"].val
               /\ filter_substring' = init_filter(params["filter_substring"].val)
               /\ UNCHANGED <<exit_code, error>>
    /\ UNCHANGED <<engine, Src, failing, config, fixture, repository, pending,
                   printed>>
    /\ UNCHANGED tree

\* lines 74-95 and 186-188: create the dependency source, from the fixture
\* file in test mode and from the registry otherwise
CreateSource ==
    /\ pc = "source"
    /\ IF TestMode
       THEN LET test_repo_path ==
                    config_get(config.params, "test_repository_path", Str(<<>>))
                loaded == load_repository(fixture)
            IN IF test_repo_path.val = <<>>
               THEN /\ Exit1("none")
                    /\ UNCHANGED <<Src, failing, repository>>
               ELSE IF loaded.raised # "none"
               THEN /\ Exit1(loaded.raised)
                    /\ UNCHANGED <<Src, failing, repository>>
               ELSE /\ repository' = loaded.repository
                    /\ Src' = getter_source(loaded.repository)
                    /\ failing' = getter_failing(loaded.repository)
                    /\ pc' = "build_root"
                    /\ UNCHANGED <<exit_code, error>>
       ELSE /\ \E S \in Sources(ShellPackages, MaxShellEdges) :
                  /\ \A p \in Packages \ ReachFrom(S, {package_name}) : S[p] = {}
                  /\ Src' = S
                  /\ failing' \in FailSets(ReachFrom(S, {package_name}))
            /\ pc' = "build_root"
            /\ UNCHANGED <<exit_code, error, repository>>
    /\ UNCHANGED <<engine, filter_substring, package_name, config, fixture,
                   pending, printed>>
    /\ UNCHANGED tree

\* line 104: graph.build_graph_dfs(package_name, get_deps_func)
BuildRoot ==
    /\ pc = "build_root"
    /\ BuildCall(package_name)
    /\ pc' = "built_root"
    /\ UNCHANGED <<config, fixture, repository, exit_code, error, pending,
                   printed>>
    /\ UNCHANGED tree

\* lines 107-110: in test mode, the packages of the fixture
\* (loader.repository.keys(), an AttributeError unless it is a dict)
AfterRoot ==
    /\ pc = "built_root"
    /\ Idle
    /\ IF ~TestMode
       THEN /\ pc' = "report"
            /\ UNCHANGED <<exit_code, error, pending>>
       ELSE IF repository.type = "dict"
       THEN /\ pc' = "loop"
            /\ pending' = DOMAIN repository.dict
            /\ UNCHANGED <<exit_code, error>>
       ELSE /\ Exit1("AttributeError")
            /\ UNCHANGED pending
    /\ UNCHANGED <<engine, Src, failing, filter_substring, package_name, config,
                   fixture, repository, printed>>
    /\ UNCHANGED tree

\* lines 111-114: the next package of the fixture is not in the graph, build it
LoopBuild ==
    /\ pc = "loop"
    /\ \E pkg \in pending :
          /\ pkg \notin get_all_packages(graph)
          /\ BuildCall(pkg)
          /\ pending' = pending \ {pkg}
    /\ UNCHANGED <<config, fixture, repository, pc, exit_code, error, printed>>
    /\ UNCHANGED tree

\* lines 111-113: the next package of the fixture is in the graph
LoopSkip ==
    /\ pc = "loop"
    /\ Idle
    /\ \E pkg \in pending :
          /\ pkg \in get_all_packages(graph)
          /\ pending' = pending \ {pkg}
    /\ UNCHANGED <<engine, Src, failing, filter_substring, package_name, config,
                   fixture, repository, pc, exit_code, error, printed>>
    /\ UNCHANGED tree

\* lines 111-117: the loop over the fixture's packages is over
LoopDone ==
    /\ pc = "loop"
    /\ Idle
    /\ pending = {}
    /\ pc' = "report"
    /\ UNCHANGED <<engine, Src, failing, filter_substring, package_name, config,
                   fixture, repository, exit_code, error, pending, printed>>
    /\ UNCHANGED tree

\* lines 117-198: the queries, then the renderers; graph.<name> raises
\* AttributeError for a name that is not a method of the class, which the
\* handler at line 192 turns into return 1
Report ==
    /\ pc = "report"
    /\ graph' = get_direct_dependencies(graph, package_name).graph
    /\ pc' = "exit"
    /\ IF "get_reverse_dependencies" \notin DependencyGraphMethods
       THEN /\ printed' = <<"direct", "all", "cycles">>
            /\ exit_code' = 1
            /\ error' = "AttributeError"
       ELSE /\ printed' = <<"direct", "all", "cycles", "reverse", "packages", "d2">>
                             \o IF config.params["ascii_tree_mode"] = Bool(TRUE)
                                THEN <<"ascii">> ELSE <<>>
            /\ exit_code' = 0
            /\ error' = "none"
    /\ UNCHANGED <<self_visited, recursion_stack, cycles, stack, visited, root,
                   ncalls, fresh, direct_added, fetches, expansions, escaped,
                   result, back_edges, after_clear, Src, failing,
                   filter_substring, package_name, config, fixture, repository,
                   pending>>
    /\ UNCHANGED tree

----------------------------------------------------------------------------
(* Specifications *)

\* the engine under any sequence of calls
Next ==
    \/ Build
    \/ FilterSkip
    \/ CycleHit
    \/ AlreadyVisited
    \/ Expand
    \/ Descend
    \/ Return
    \/ AddDependency
    \/ Clear

Spec == Init /\ [][Next]_vars

\* one build of package_name on the freshly constructed engine
FreshBuild == ncalls = 0 /\ BuildCall(package_name) /\ UNCHANGED <<shell, tree>>

NextBuild ==
    \/ FreshBuild
    \/ FilterSkip
    \/ CycleHit
    \/ AlreadyVisited
    \/ Expand
    \/ Descend
    \/ Return

BuildSpec == InitBuild /\ [][NextBuild]_vars

\* that build, and the queries on the graph it leaves
\* (and on the empty graph before it)
NextQuery ==
    \/ FreshBuild
    \/ FilterSkip
    \/ CycleHit
    \/ AlreadyVisited
    \/ Expand
    \/ Descend
    \/ Return
    \/ GetAllDependencies
    \/ GetDirectDependencies
    \/ GetAllPackages
    \/ GetCycles
    \/ HasCycles

QuerySpec == InitNoFail /\ [][NextQuery]_vars

\* the interpreter runs a call that has started until it returns
FairBuildSpec == InitNoFail /\ [][NextBuild]_vars /\ WF_vars(Step)

\* a run of main()
NextShell ==
    \/ LoadConfig
    \/ CreateSource
    \/ BuildRoot
    \/ AfterRoot
    \/ LoopBuild
    \/ LoopSkip
    \/ LoopDone
    \/ Report
    \/ FilterSkip
    \/ CycleHit
    \/ AlreadyVisited
    \/ Expand
    \/ Descend
    \/ Return

ShellSpec == ShellInit /\ [][NextShell]_vars

----------------------------------------------------------------------------
(* ASCIITreeGenerator.generate_compact *)

\* the order of characters and of strings that sorted() uses
Ord(c) ==
    LET cs == UpperCase \o LowerCase
    IN IF \E i \in 1..Len(cs) : cs[i] = c
       THEN CHOOSE i \in 1..Len(cs) : cs[i] = c
       ELSE 0

RECURSIVE StrLess(_, _)
StrLess(s, t) ==
    IF t = <<>> THEN FALSE
    ELSE IF s = <<>> THEN TRUE
    ELSE IF Head(s) = Head(t) THEN StrLess(Tail(s), Tail(t))
    ELSE Ord(Head(s)) < Ord(Head(t))

\* sorted(set of strings)
RECURSIVE sorted(_)
sorted(S) ==
    IF S = {} THEN <<>>
    ELSE LET m == CHOOSE x \in S : \A y \in S \ {x} : StrLess(x, y)
         IN <<m>> \o sorted(S \ {m})

TTop == tstack[Len(tstack)]

\* lines 90-109: generate_compact() on the graph the build has left
GenerateCompact ==
    /\ Idle /\ fresh
    /\ tree_state = "none"
    /\ IF package_name \notin get_all_packages(graph)
       THEN /\ tree_state' = "done"
            /\ UNCHANGED <<tstack, tvisited>>
       ELSE /\ tree_state' = "running"
            /\ tvisited' = {}
            /\ tstack' = <<[package |-> package_name, pc |-> "enter",
                            todo |-> <<>>]>>
    /\ UNCHANGED <<engine, shell, Src, failing, filter_substring, package_name,
                   texpansions>>

\* lines 128-130: a package other than the root that was shown before
TreeShown ==
    /\ tree_state = "running"
    /\ TTop.pc = "enter"
    /\ TTop.package # package_name
    /\ TTop.package \in tvisited
    /\ tstack' = Pop(tstack)
    /\ UNCHANGED <<engine, shell, Src, failing, filter_substring, package_name,
                   tvisited, texpansions, tree_state>>

\* lines 132-141: mark the package, read and sort its dependencies
TreeExpand ==
    /\ tree_state = "running"
    /\ TTop.pc = "enter"
    /\ ~(TTop.package # package_name /\ TTop.package \in tvisited)
    /\ tvisited' = tvisited \cup {TTop.package}
    /\ texpansions' = [texpansions EXCEPT ![TTop.package] = @ + 1]
    /\ graph' = get_direct_dependencies(graph, TTop.package).graph
    /\ tstack' = [tstack EXCEPT
                     ![Len(tstack)].pc = "loop",
                     ![Len(tstack)].todo =
                         sorted(get_direct_dependencies(graph, TTop.package).value)]
    /\ UNCHANGED <<self_visited, recursion_stack, cycles, stack, visited, root,
                   ncalls, fresh, direct_added, fetches, expansions, escaped,
                   result, back_edges, after_clear, shell, Src, failing,
                   filter_substring, package_name, tree_state>>

\* lines 147-149: the recursive call for the next dependency
TreeDescend ==
    /\ tree_state = "running"
    /\ TTop.pc = "loop"
    /\ TTop.todo # <<>>
    /\ Len(tstack) < RecursionLimit
    /\ tstack' = Append([tstack EXCEPT ![Len(tstack)].todo = Tail(@)],
                        [package |-> Head(TTop.todo), pc |-> "enter",
                         todo |-> <<>>])
    /\ UNCHANGED <<engine, shell, Src, failing, filter_substring, package_name,
                   tvisited, texpansions, tree_state>>

\* lines 147-149: the recursive call exceeds the interpreter's recursion
\* limit; RecursionError leaves every frame and generate_compact
TreeRecursionError ==
    /\ tree_state = "running"
    /\ TTop.pc = "loop"
    /\ TTop.todo # <<>>
    /\ Len(tstack) >= RecursionLimit
    /\ tstack' = <<>>
    /\ tree_state' = "RecursionError"
    /\ UNCHANGED <<engine, shell, Src, failing, filter_substring, package_name,
                   tvisited, texpansions>>

\* the loop of lines 147-149 is over, _build_tree_compact returns; the
\* outermost return ends generate_compact (lines 107-109)
TreeReturn ==
    /\ tree_state = "running"
    /\ TTop.pc = "loop"
    /\ TTop.todo = <<>>
    /\ tstack' = Pop(tstack)
    /\ tree_state' = IF Len(tstack) = 1 THEN "done" ELSE "running"
    /\ UNCHANGED <<engine, shell, Src, failing, filter_substring, package_name,
                   tvisited, texpansions>>

\* a source over the packages of a fixture that never fails
InitTree ==
    /\ InitWith(ShellPackages, ShellPackages, MaxApiEdges, BuildFilterArgs)
    /\ failing = {}

\* a fresh build of package_name, then generate_compact on its graph
NextTree ==
    \/ FreshBuild
    \/ FilterSkip
    \/ CycleHit
    \/ AlreadyVisited
    \/ Expand
    \/ Descend
    \/ Return
    \/ GenerateCompact
    \/ TreeShown
    \/ TreeExpand
    \/ TreeDescend
    \/ TreeRecursionError
    \/ TreeReturn

TreeSpec == InitTree /\ [][NextTree]_vars

----------------------------------------------------------------------------
(* build_graph_dfs as a function: the engine states one call can leave,    *)
(* over every order in which a source may list the keys of a package       *)

\* the engine fields build_graph_dfs reads and writes, as constructed
FreshEngine == [graph |-> <<>>, cycles |-> <<>>, visited |-> {}]

RECURSIVE build_graph_dfs(_, _, _, _, _, _)
RECURSIVE build_loop(_, _, _, _, _, _, _)

\* lines 81-117: the call for package with the given path, from engine state st
build_graph_dfs(S, F, f, st, package, path) ==
    LET branch == Classify(f, package, path, st.visited)
    IN IF branch = "cycle"
       THEN {[st EXCEPT !.cycles = Append(@, CycleOf(path, package))]}
       ELSE IF branch = "expand"
       THEN LET st1 == [st EXCEPT !.visited = @ \cup {package}]
            IN IF package \in F THEN {st1}
               ELSE build_loop(S, F, f, {st1}, package,
                               Append(path, package), S[package])
       ELSE {st}

\* lines 105-108: the rest of the loop of package over the keys in todo
build_loop(S, F, f, sts, package, path, todo) ==
    IF todo = {} THEN sts
    ELSE UNION {
           build_loop(S, F, f,
               UNION {IF should_filter(f, dep_name) THEN {st}
                      ELSE build_graph_dfs(S, F, f,
                              [st EXCEPT !.graph = add_dependency(@, f, package,
                                                                  dep_name)],
                              dep_name, path) : st \in sts},
               package, path, todo \ {dep_name}) : dep_name \in todo}

\* the graph and cycle list a build of r can leave on a fresh engine
FreshOutcomes(S, F, f, r) ==
    {[graph |-> st.graph, cycles |-> st.cycles] :
        st \in build_graph_dfs(S, F, f, FreshEngine, r, <<>>)}

----------------------------------------------------------------------------
(* Properties *)

\* the first build, on the freshly constructed engine, has returned
FreshDone == Idle /\ fresh

\* the package's lower-cased name contains the (lower-cased) filter substring
Matches(p) ==
    /\ filter_substring # <<>>
    /\ Contains(lower(filter_substring), lower(p))

\* some directed cycle of S can be reached from r
HasReachableCycle(S, r) == \E p \in ReachFrom(S, {r}) : p \in ReachPlus(S, p)

\* c starts and ends with the same package and follows edges of S
FollowsEdges(S, c) ==
    /\ Len(c) >= 2
    /\ c[1] = c[Len(c)]
    /\ \A i \in 1..(Len(c) - 1) : c[i + 1] \in Succ(S, c[i])

\* the sources named in the examples
CycleABC == SourceOf({<<A, B>>, <<B, C>>, <<C, A>>})
Diamond == SourceOf({<<A, B>>, <<A, C>>, <<B, D>>, <<C, D>>})
FilterExample == SourceOf({<<A, B>>, <<B, Ctest>>})
FailExample == SourceOf({<<A, B>>, <<B, C>>, <<A, D>>})

\* what a build can see of the source: nothing behind a failing fetch,
\* nothing of or behind a filtered name
EffSrc == [q \in Packages |->
              IF q \in failing \/ Matches(q) THEN {}
              ELSE {d \in Src[q] : ~Matches(d)}]

EffReach == IF Matches(root) THEN {} ELSE ReachFrom(EffSrc, {root})

\* C1: after a build on a fresh engine with no filter and no failing fetch,
\* every package reachable from root in the source has exactly the source's
\* dependencies as its direct dependencies, and the graph has no edge the
\* source does not have.
C1_GraphIsReachableSource ==
    (FreshDone /\ filter_substring = <<>> /\ failing = {}) =>
        /\ \A p \in ReachFrom(Src, {root}) :
              get_direct_dependencies(graph, p).value = Src[p]
        /\ \A p \in DOMAIN graph : graph[p] \subseteq Src[p]

\* C1 witness: a finished build in which one dependency was reached through
\* two branches and another closed a cycle
C1_Witness ==
    /\ FreshDone /\ filter_substring = <<>> /\ failing = {}
    /\ cycles # <<>>
    /\ \E d \in DOMAIN graph :
          Cardinality({p \in DOMAIN graph : d \in graph[p]}) >= 2

\* C2: after a build on a fresh engine with no filter, get_all_packages()
\* contains root and every name returned by a fetch of that build.
C2_AllPackagesCoverRootAndFetched ==
    (FreshDone /\ filter_substring = <<>>) =>
        ({root} \cup UNION {Src[p] : p \in {q \in Packages :
                                fetches[q] > 0 /\ q \notin failing}})
            \subseteq get_all_packages(graph)

\* C3: after a build on a fresh engine with no filter and no failing fetch,
\* a cycle reachable from root makes has_cycles() true and get_cycles() hold
\* a sequence that starts and ends with one package and follows source edges;
\* A->B, B->C, C->A built from A records exactly [A, B, C, A].
C3_CycleDetectionComplete ==
    (FreshDone /\ filter_substring = <<>> /\ failing = {}) =>
        /\ HasReachableCycle(Src, root) =>
              /\ has_cycles(cycles)
              /\ \E i \in 1..Len(get_cycles(cycles)) :
                    FollowsEdges(Src, get_cycles(cycles)[i])
        /\ (Src = CycleABC /\ root = A) =>
              get_cycles(cycles) = << <<A, B, C, A>> >>

\* C3 witness: the build of A->B, B->C, C->A from A has returned
C3_Witness ==
    /\ FreshDone /\ filter_substring = <<>> /\ failing = {}
    /\ Src = CycleABC /\ root = A
    /\ has_cycles(cycles)

\* C4: every recorded cycle has at least two elements, equal first and last
\* elements, no other repetition, and follows edges stored in the graph; a
\* source with no cycle reachable from root leaves the cycle list empty.
C4_NoFalseCycles ==
    /\ \A i \in 1..Len(cycles) :
          LET c == cycles[i]
          IN /\ FollowsEdges(graph, c)
             /\ \A j, k \in 1..(Len(c) - 1) : j # k => c[j] # c[k]
    /\ (FreshDone /\ ~HasReachableCycle(Src, root)) =>
          /\ get_cycles(cycles) = <<>>
          /\ ~has_cycles(cycles)

\* C4 witness: the diamond has been built from A, D reached through B and C
C4_Witness ==
    /\ FreshDone /\ filter_substring = <<>> /\ failing = {}
    /\ Src = Diamond /\ root = A
    /\ graph[B] = {D} /\ graph[C] = {D}
    /\ cycles = <<>>

\* C5: with a non-empty filter, no package whose lower-cased name contains
\* the filter is a key or a member of a dependency set, and the source is
\* never called with one; filter "test" on A->B, B->Ctest built from A gives
\* get_all_packages() = {A, B} with Ctest not among B's dependencies.
C5_FilteredNeverAppears ==
    /\ \A p \in Packages :
          Matches(p) =>
             /\ p \notin DOMAIN graph
             /\ \A q \in DOMAIN graph : p \notin graph[q]
             /\ fetches[p] = 0
    /\ (FreshDone /\ filter_substring = <<"t", "e", "s", "t">>
          /\ Src = FilterExample /\ failing = {} /\ root = A) =>
             /\ get_all_packages(graph) = {A, B}
             /\ Ctest \notin get_direct_dependencies(graph, B).value

\* C5 witness: the filter example has been built
C5_Witness ==
    /\ FreshDone /\ filter_substring = <<"t", "e", "s", "t">>
    /\ Src = FilterExample /\ failing = {} /\ root = A
    /\ DOMAIN graph = {A, B}

\* C6: a failing fetch of a non-root package lets no exception out of the
\* build, leaves the package in the graph with an empty dependency set and
\* with the edges into it, and every other package is fetched once and gets
\* the dependencies it would get if the failing package had none.
C6_FetchFailureIsolated ==
    /\ ~escaped
    /\ FreshDone =>
          /\ \A p \in (failing \cap EffReach) \ {root} :
                /\ p \in DOMAIN graph
                /\ graph[p] = {}
                /\ \A q \in EffReach : p \in EffSrc[q] => p \in dict_get(graph, q)
          /\ \A q \in EffReach :
                /\ fetches[q] = 1
                /\ dict_get(graph, q) = EffSrc[q]
    /\ (FreshDone /\ Src = FailExample /\ failing = {B} /\ root = A
          /\ filter_substring = <<>>) =>
             /\ {B, D} \subseteq dict_get(graph, A)
             /\ get_all_packages(graph) = {A, B, D}

\* C6 witness: A->B->C, A->D has been built from A with fetch(B) failing
C6_Witness ==
    /\ FreshDone /\ Src = FailExample /\ failing = {B} /\ root = A
    /\ filter_substring = <<>>
    /\ fetches[B] = 1 /\ fetches[D] = 1

\* a source with a self-loop, one with a mutual dependency, one long cycle
LongCycle == SourceOf({<<A, B>>, <<B, C>>, <<C, D>>, <<D, A>>})

\* C7: a build that has started returns, and on the way no package is
\* expanded a second time, so that the expansions of one build number at
\* most the distinct packages.
C7_BuildTerminates ==
    /\ [](\A p \in Packages : expansions[p] <= 1)
    /\ (~Idle) ~> Idle

\* C7 witness: the build of the cycle A->B->C->D->A has returned
C7_Witness ==
    /\ FreshDone /\ Src = LongCycle /\ failing = {} /\ filter_substring = <<>>
    /\ \A p \in BuildPackages : expansions[p] = 1
    /\ Len(cycles) = 1

\* C8 as stated: every member of a dependency set is a key, get_all_packages()
\* is the key set, and get_direct_dependencies(p) is within it and is empty
\* when p is unknown, filtered or never fetched.
C8_NoDanglingNodes_AsStated ==
    /\ \A p \in DOMAIN graph : graph[p] \subseteq DOMAIN graph
    /\ get_all_packages(graph) = DOMAIN graph
    /\ \A p \in Packages :
          /\ get_direct_dependencies(graph, p).value \subseteq get_all_packages(graph)
          /\ (p \notin DOMAIN graph \/ Matches(p) \/ fetches[p] = 0) =>
                get_direct_dependencies(graph, p).value = {}

\* C8 (amended): every member of a dependency set is a key, get_all_packages()
\* is the key set, and get_direct_dependencies(p) is within it and is empty
\* when p is unknown or filtered, or was never fetched and never the first
\* argument of a direct add_dependency call.
C8_NoDanglingNodes ==
    /\ \A p \in DOMAIN graph : graph[p] \subseteq DOMAIN graph
    /\ get_all_packages(graph) = DOMAIN graph
    /\ \A p \in Packages :
          /\ get_direct_dependencies(graph, p).value \subseteq get_all_packages(graph)
          /\ (p \notin DOMAIN graph \/ Matches(p)
                \/ (fetches[p] = 0 /\ p \notin direct_added)) =>
                get_direct_dependencies(graph, p).value = {}

\* C8 witness: after a build, a direct add_dependency and further calls, a
\* package is in the graph only as a dependency, with its own empty set
C8_Witness ==
    /\ Idle /\ ncalls >= 2 /\ direct_added # {}
    /\ \E p \in DOMAIN graph :
          /\ graph[p] = {}
          /\ fetches[p] = 0
          /\ \E q \in DOMAIN graph : p \in graph[q]

\* C9: get_all_dependencies(p) is the set of packages reachable from p by one
\* or more stored edges, empty when p is not a key; for the diamond the
\* result for A is {B, C, D}.
C9_AllDependenciesIsReachability ==
    (result.op = "get_all_dependencies") =>
        /\ result.value = ReachPlus(graph, result.arg)
        /\ (result.arg \in result.value) <=>
              (\E q \in Succ(graph, result.arg) :
                  result.arg \in ReachFrom(graph, {q}))
        /\ result.arg \notin DOMAIN graph => result.value = {}
        /\ (FreshDone /\ Src = Diamond /\ root = A /\ failing = {}
              /\ filter_substring = <<>> /\ result.arg = A) =>
                 result.value = {B, C, D}

\* C9 witness: get_all_dependencies(A) has returned on the built diamond
C9_Witness ==
    /\ FreshDone /\ Src = Diamond /\ root = A /\ failing = {}
    /\ filter_substring = <<>>
    /\ result = [op |-> "get_all_dependencies", arg |-> A, value |-> {B, C, D}]

\* C10: a query leaves the key set, every dependency set and the cycle list
\* as they were, also for a package that is not in the graph, and
\* get_all_dependencies called again for the same package returns the same set.
C10_QueriesSideEffectFree ==
    [][(Idle /\ Idle' /\ ncalls' = ncalls) =>
          /\ graph' = graph
          /\ cycles' = cycles
          /\ (/\ result.op = "get_all_dependencies"
              /\ result'.op = "get_all_dependencies"
              /\ result'.arg = result.arg) => result'.value = result.value]_vars

\* C10 witness: on a built graph get_direct_dependencies has returned the
\* empty set for a package that is not in the graph
C10_Witness ==
    /\ FreshDone /\ DOMAIN graph # {}
    /\ result.op = "get_direct_dependencies"
    /\ result.arg \notin DOMAIN graph
    /\ result.value = {}

\* C12: within one top-level build the source is called at most once per
\* package; a package whose fetch failed is in the visited set like any
\* fetched package and is not fetched again, and the step that records a
\* cycle calls the source for no package.
C12_FetchOncePerBuild ==
    /\ [](\A p \in Packages :
             /\ fetches[p] <= 1
             /\ fetches[p] = 1 => p \in visited)
    /\ [][cycles' # cycles => fetches' = fetches]_vars

\* C12 witness: the build is over, a package whose fetch failed was reached
\* along two edges and fetched once, and a cycle was recorded
C12_Witness ==
    /\ FreshDone /\ cycles # <<>>
    /\ \E p \in failing :
          /\ fetches[p] = 1
          /\ Cardinality({q \in DOMAIN graph : p \in graph[q]}) >= 2

\* C18: for one build on a fresh engine get_cycles() never holds two equal
\* sequences, and when the build is over the number of recorded cycles is the
\* number of stored edges u -> v that had v on the current path when u was
\* expanded, the i-th cycle closing the i-th such edge in traversal order.
C18_OneCyclePerBackEdge ==
    LET cs == get_cycles(cycles)
        stored == {e \in {back_edges[i] : i \in 1..Len(back_edges)} :
                      e[1] \in DOMAIN graph /\ e[2] \in graph[e[1]]}
    IN  /\ \A i, j \in 1..Len(cs) : cs[i] = cs[j] => i = j
        /\ Len(cs) <= Len(back_edges)
        /\ Len(back_edges) <= Len(cs) + 1
        /\ Idle =>
              /\ Len(cs) = Cardinality(stored)
              /\ \A i \in 1..Len(cs) :
                    /\ Len(cs[i]) >= 2
                    /\ SubSeq(cs[i], Len(cs[i]) - 1, Len(cs[i])) = back_edges[i]
                    /\ cs[i][1] = back_edges[i][2]

\* C18 witness: the build is over with two recorded cycles of different
\* lengths, one of them through a package that two packages depend on
C18_Witness ==
    /\ FreshDone /\ Len(cycles) >= 2
    /\ \E i, j \in 1..Len(cycles) : Len(cycles[i]) < Len(cycles[j])
    /\ \E i \in 1..Len(cycles) :
          Cardinality({q \in DOMAIN graph : cycles[i][1] \in graph[q]}) >= 2

\* C13: right after clear() get_all_packages() is empty, has_cycles() is
\* false and get_cycles() is empty; and a build that follows clear() ends with
\* a graph and a cycle list that the same build leaves on a freshly
\* constructed engine with the same filter, whatever was built before.
C13_ClearResets ==
    /\ after_clear = "cleared" =>
          /\ get_all_packages(graph) = {}
          /\ ~has_cycles(cycles)
          /\ get_cycles(cycles) = <<>>
          /\ self_visited = {} /\ recursion_stack = {}
    /\ (Idle /\ after_clear = "building") =>
          [graph |-> graph, cycles |-> get_cycles(cycles)]
              \in FreshOutcomes(Src, failing, filter_substring, root)

\* C13 witness: a build, then clear(), then a build of a package other than A
\* that has returned with a non-empty graph, some package fetched by both
C13_Witness ==
    /\ Idle /\ after_clear = "building" /\ ncalls = 2
    /\ root # A /\ fetches[A] >= 1
    /\ DOMAIN graph # {}
    /\ \E p \in Packages : fetches[p] >= 2

\* the type the validation demands of a parameter
ParamType(param) ==
    IF param \in {"test_mode", "ascii_tree_mode"} THEN "bool" ELSE "str"

\* the configuration file is missing, unparsable or empty, lacks a required
\* parameter, or gives a parameter the validation reads a value of another type
BadConfig(cfg) ==
    \/ cfg.file \in {"missing", "invalid_yaml", "empty"}
    \/ \E param \in REQUIRED_PARAMS : cfg.params[param].type = "absent"
    \/ \E param \in REQUIRED_PARAMS :
          cfg.params[param].type \notin {"absent", ParamType(param)}
    \/ /\ cfg.params["test_mode"] = Bool(TRUE)
       /\ cfg.params["test_repository_path"].type \notin {"absent", "str"}

\* C11: the engine has a reverse-dependency query: when main() reaches the
\* report, graph.get_reverse_dependencies(package_name) returns without error
\* and the reverse dependencies are printed.
C11_ReverseDependenciesProvided ==
    (pc = "exit" /\ Len(printed) >= 3) =>
        /\ error = "none"
        /\ \E i \in 1..Len(printed) : printed[i] = "reverse"

\* C14: in a run whose configuration file is missing, unparsable or empty,
\* lacks a required parameter or has a wrongly typed value, main() returns a
\* non-zero code and neither build_graph_dfs nor the source is ever called.
C14_ConfigValidatedFirst ==
    (pc # "start" /\ BadConfig(config)) =>
        /\ pc = "exit"
        /\ exit_code = 1
        /\ ncalls = 0 /\ Idle
        /\ \A p \in Packages : fetches[p] = 0

\* C14 witness: main() has returned 1 for a configuration whose only flaw is
\* an ascii_tree_mode that is a number
C14_Witness ==
    /\ pc = "exit" /\ exit_code = 1 /\ error = "ConfigError"
    /\ config.file = "mapping"
    /\ config.params["ascii_tree_mode"] = Number
    /\ [config.params EXCEPT !["ascii_tree_mode"] = Bool(TRUE)] \in BaseParams

\* C15: in a run with a valid configuration whose source was created (the
\* build was called), main() prints the direct, transitive, cycle and reverse
\* queries, then the D2 diagram, then the ASCII tree when ascii_tree_mode is
\* true, and returns 0.
C15_DataFlowToTheEnd ==
    (pc = "exit" /\ ncalls >= 1) =>
        /\ exit_code = 0
        /\ printed = <<"direct", "all", "cycles", "reverse", "packages", "d2">>
                        \o IF config.params["ascii_tree_mode"] = Bool(TRUE)
                           THEN <<"ascii">> ELSE <<>>

\* C16: across a whole run of main() in test mode the source is called at
\* most once per package, and get_cycles() holds no cycle twice.
C16_FetchedOncePerRun ==
    TestMode =>
        /\ \A p \in Packages : fetches[p] <= 1
        /\ \A i, j \in 1..Len(cycles) : cycles[i] = cycles[j] => i = j

\* the fixture is neither a JSON object nor well-formed text
Malformed(fx) ==
    \/ fx.kind \in {"json_array", "json_scalar"}
    \/ fx.kind = "text" /\ fx.junk

\* C17: when the fixture file is malformed, creating the source raises
\* TestRepositoryError and main() returns non-zero with build_graph_dfs never
\* called.
C17_MalformedFixtureFatal ==
    (pc \notin {"start", "source"} /\ TestMode /\ Malformed(fixture)) =>
        /\ pc = "exit"
        /\ error = "TestRepositoryError"
        /\ exit_code = 1
        /\ ncalls = 0

\* C19: generate_compact() terminates on every graph a build leaves: it never
\* runs into the recursion limit, every package other than the root goes past
\* the test of _build_tree_compact at most once, and the root at most once
\* more than it has dependents.
C19_CompactTreeTerminates ==
    /\ tree_state # "RecursionError"
    /\ \A p \in Packages \ {package_name} : texpansions[p] <= 1
    /\ texpansions[package_name] <=
          1 + Cardinality({q \in DOMAIN graph : package_name \in graph[q]})

====
